---- MODULE Spec2Model ----
(***************************************************************************)
(* Model of the retrieval core of code-ingest:                             *)
(*   backend/app/chunker.py       chunk_file_text                          *)
(*   backend/app/vector_store.py  SimpleVectorStore                        *)
(*                                                                         *)
(* Numbers.  The Python code computes on IEEE doubles.  The model computes *)
(* on exact reals: a vector component is num/sqrt(den) with integer num    *)
(* and den, a cosine score is kept as its sign and its reduced square.     *)
(* Rounding of the last bit is therefore not modelled.                     *)
(***************************************************************************)
EXTENDS Integers, Sequences, FiniteSets, TLC

VARIABLES
    cin,          \* chunker: arguments of the chunk_file_text call
    cpc,          \* chunker: position in chunk_file_text
    lines,        \* chunker: text.splitlines()
    start_index,  \* chunker: loop variable
    chunks,       \* chunker: list of chunks built so far / returned
    iters,        \* chunker: loop iterations executed so far
    data,         \* store: self.data, repo id -> list of (id, list object, metadata)
    heap,         \* store: the list objects holding vectors, by reference
    passed,       \* store: references of the lists callers passed and still hold
    res,          \* store: the call that just returned and its outcome
    mutations,    \* store: in-place writes done by callers to their lists
    th,           \* threads: the call each thread is in and its local variables
    log,          \* threads: per repo id, the batches whose extend is complete
    data2,        \* second store: the dict made by its own __init__
    sha,          \* embedder: the function hashlib.sha256(...).hexdigest()
    emb           \* embedder: the embed_texts call under way and the one before

cvars == <<cin, cpc, lines, start_index, chunks, iters>>

svars == <<data, heap, passed, res, mutations>>

tvars == <<th, log>>

evars == <<sha, emb>>

ovars == <<data2>>

vars == <<cin, cpc, lines, start_index, chunks, iters,
          data, heap, passed, res, mutations, th, log, data2, sha, emb>>

(***************************************************************************)
(* Bounds                                                                  *)
(***************************************************************************)
MaxTextLen == 6      \* characters in a text
MaxMaxLines == 3     \* largest max_lines argument
MaxOverlap == 4      \* largest overlap_lines argument
MaxItems == 2        \* items held by one store
MaxBatch == 2        \* items in one add_vectors call
MaxK == 2            \* largest k argument
MaxMutations == 1    \* in-place writes by callers
MaxThreadItems == 3  \* items held by a store that threads share
MaxTexts == 2        \* texts in one embed_texts call
MaxStoresItems == 3  \* items held by two stores together

NL == "\n"
Chars == {"x", NL}

Min(a, b) == IF a <= b THEN a ELSE b
Max(a, b) == IF a >= b THEN a ELSE b

Texts == UNION {[1..n -> Chars] : n \in 0..MaxTextLen}

(***************************************************************************)
(* chunker.py                                                              *)
(***************************************************************************)
\* the pieces of text[lo..hi] between its line breaks, one more than it has
\* breaks; the range is halved so that long texts stay within the
\* evaluator's stack
RECURSIVE Pieces(_, _, _)
Pieces(text, lo, hi) ==
    IF lo > hi THEN <<(<<>>)>>
    ELSE IF lo = hi
    THEN IF text[lo] = NL THEN <<(<<>>), (<<>>)>> ELSE <<(<<text[lo]>>)>>
    ELSE LET mid == (lo + hi) \div 2
             left == Pieces(text, lo, mid)
             right == Pieces(text, mid + 1, hi)
         IN SubSeq(left, 1, Len(left) - 1)
                \o <<left[Len(left)] \o right[1]>>
                \o SubSeq(right, 2, Len(right))

\* str.splitlines(): a trailing line break opens no further line
SplitLines(text) ==
    LET ps == Pieces(text, 1, Len(text))
    IN IF ps[Len(ps)] = <<>> THEN SubSeq(ps, 1, Len(ps) - 1) ELSE ps

\* "\n".join(ls[lo..hi]), the range halved as in Pieces
RECURSIVE JoinRange(_, _, _)
JoinRange(ls, lo, hi) ==
    IF lo > hi THEN <<>>
    ELSE IF lo = hi THEN ls[lo]
    ELSE LET mid == (lo + hi) \div 2
         IN JoinRange(ls, lo, mid) \o <<NL>> \o JoinRange(ls, mid + 1, hi)

JoinLines(ls) == JoinRange(ls, 1, Len(ls))

\* lines[a:b] for 0 <= a, with Python's clipping at the end of the list
Slice(ls, a, b) ==
    LET hi == Min(b, Len(ls)) IN
    IF a >= hi THEN <<>> ELSE [j \in 1..(hi - a) |-> ls[a + j]]

EffectiveOverlap(max_lines, overlap_lines) ==
    IF max_lines > 1 THEN Min(overlap_lines, max_lines - 1) ELSE 0

\* variant: a step one line too long
StepGap(max_lines, overlap) == Max(1, max_lines - overlap + 1)

\* variant: the lines two windows share are counted one too many
StepOffByOne(max_lines, overlap) == Max(0, max_lines - overlap - 1)

Step(max_lines, overlap) == Max(1, max_lines - overlap)

\* variant: the 0-based index taken as the line number
StartLine0(si) == si

StartLine(si) == si + 1

ChunkId(start_line, end_line) ==
    "chunk-" \o ToString(start_line) \o "-" \o ToString(end_line)

\* variant: end_line taken from the window, not from the lines it holds
MakeChunkUnclipped(ls, si, max_lines) ==
    LET end_index == Min(Len(ls), si + max_lines)
        chunk_lines == Slice(ls, si, end_index)
        start_line == StartLine(si)
        end_line == si + max_lines
    IN [id |-> ChunkId(start_line, end_line),
        text |-> JoinLines(chunk_lines),
        metadata |-> [start_line |-> start_line, end_line |-> end_line]]

MakeChunk(ls, si, max_lines) ==
    LET end_index == Min(Len(ls), si + max_lines)
        chunk_lines == Slice(ls, si, end_index)
        start_line == StartLine(si)
        end_line == si + Len(chunk_lines)
    IN [id |-> ChunkId(start_line, end_line),
        text |-> JoinLines(chunk_lines),
        metadata |-> [start_line |-> start_line, end_line |-> end_line]]

(***************************************************************************)
(* vector_store.py: numbers                                                *)
(*                                                                         *)
(* A list object holds the vector whose i-th component is num[i]/sqrt(den).*)
(* A list built by a caller has den = 1.  A score s is kept as sgn = sign  *)
(* of s and p/q = s*s in lowest terms, so equal scores are equal records.  *)
(***************************************************************************)
Abs(n) == IF n < 0 THEN -n ELSE n

RECURSIVE Gcd(_, _)
Gcd(a, b) == IF b = 0 THEN a ELSE Gcd(b, a % b)

RECURSIVE GcdSeq(_)
GcdSeq(ns) == IF ns = <<>> THEN 0 ELSE Gcd(Abs(ns[1]), GcdSeq(Tail(ns)))

RECURSIVE Dot(_, _)
Dot(xs, ys) ==
    IF xs = <<>> \/ ys = <<>> THEN 0
    ELSE xs[1] * ys[1] + Dot(Tail(xs), Tail(ys))

SumSq(xs) == Dot(xs, xs)

Raw(ns) == [num |-> ns, den |-> 1]

ZeroScore == [sgn |-> 0, p |-> 0, q |-> 1]
OneScore == [sgn |-> 1, p |-> 1, q |-> 1]

\* the real number n / sqrt(d), d > 0
MkScore(n, d) ==
    IF n = 0 THEN ZeroScore
    ELSE LET g == Gcd(n * n, d)
         IN [sgn |-> IF n > 0 THEN 1 ELSE -1, p |-> (n * n) \div g, q |-> d \div g]

ScoreLess(s, t) == s.sgn * s.p * t.q < t.sgn * t.p * s.q

\* [value / norm for value in vector], norm # 0: num[i]/sqrt(sum of squares)
Unit(v) ==
    LET g == GcdSeq(v.num)
    IN [num |-> [i \in 1..Len(v.num) |-> IF v.num[i] >= 0
                                          THEN v.num[i] \div g
                                          ELSE -((-v.num[i]) \div g)],
        den |-> SumSq(v.num) \div (g * g)]

NormIsZero(v) == SumSq(v.num) = 0

\* variant: only the norm of the first vector is tested; the division by a
\* zero norm_b raises
CosineSimilarityFirstOnly(a, b) ==
    IF Len(a.num) # Len(b.num)
    THEN [status |-> "ValueError", score |-> ZeroScore]
    ELSE IF NormIsZero(a)
    THEN [status |-> "ok", score |-> ZeroScore]
    ELSE IF NormIsZero(b)
    THEN [status |-> "ZeroDivisionError", score |-> ZeroScore]
    ELSE [status |-> "ok",
          score |-> MkScore(Dot(a.num, b.num), SumSq(a.num) * SumSq(b.num))]

\* dot = Dot/sqrt(a.den*b.den), norm_a = sqrt(SumSq(a)/a.den), likewise
\* norm_b, so dot / (norm_a * norm_b) = Dot / sqrt(SumSq(a) * SumSq(b))
CosineSimilarity(a, b) ==
    IF Len(a.num) # Len(b.num)
    THEN [status |-> "ValueError", score |-> ZeroScore]
    ELSE IF NormIsZero(a) \/ NormIsZero(b)
    THEN [status |-> "ok", score |-> ZeroScore]
    ELSE [status |-> "ok",
          score |-> MkScore(Dot(a.num, b.num), SumSq(a.num) * SumSq(b.num))]

\* _normalize on the list object r: the same object when its norm is 0,
\* a new list otherwise
Normalize(h, r) ==
    IF NormIsZero(h[r])
    THEN [heap |-> h, ref |-> r]
    ELSE [heap |-> Append(h, Unit(h[r])), ref |-> Len(h) + 1]

(***************************************************************************)
(* vector_store.py: add_vectors                                            *)
(***************************************************************************)
\* the for loop building normalized_items; a raise leaves nothing behind
RECURSIVE AddLoop(_, _, _, _)
AddLoop(h, items, i, acc) ==
    IF i > Len(items) THEN [status |-> "ok", heap |-> h, items |-> acc]
    ELSE IF h[items[i].vector].num = <<>>
         THEN [status |-> "ValueError", heap |-> h, items |-> <<>>]
         ELSE LET n == Normalize(h, items[i].vector)
              IN AddLoop(n.heap, items, i + 1,
                     Append(acc, [id |-> items[i].id, vector |-> n.ref,
                                  metadata |-> items[i].metadata]))

\* variant: a repo id is looked up in the first partition when it has none
GetOrFirst(d, repo_id) ==
    IF repo_id \in DOMAIN d THEN d[repo_id]
    ELSE IF DOMAIN d = {} THEN <<>>
    ELSE d[CHOOSE r \in DOMAIN d : TRUE]

\* self.data.get(repo_id): None is modelled as the empty list
Get(d, repo_id) == IF repo_id \in DOMAIN d THEN d[repo_id] ELSE <<>>

\* variant: an id already in the partition is not inserted again
ExtendDedupe(d, repo_id, new) ==
    [r \in DOMAIN d \cup {repo_id} |->
        IF r = repo_id
        THEN Get(d, r) \o SelectSeq(new,
                 LAMBDA it : \A j \in 1..Len(Get(d, r)) : Get(d, r)[j].id # it.id)
        ELSE d[r]]

\* variant: the batch replaces the partition
ExtendReplace(d, repo_id, new) ==
    [r \in DOMAIN d \cup {repo_id} |-> IF r = repo_id THEN new ELSE d[r]]

\* self.data.setdefault(repo_id, []).extend(new)
Extend(d, repo_id, new) ==
    [r \in DOMAIN d \cup {repo_id} |->
        IF r = repo_id THEN Get(d, r) \o new ELSE d[r]]

\* the caller's lists, allocated behind the lists of h
WithCallerLists(h, items) ==
    h \o [i \in 1..Len(items) |-> Raw(items[i].vector)]

\* items with each vector replaced by the reference of its list object
ByReference(h, items) ==
    [i \in 1..Len(items) |->
        [id |-> items[i].id, vector |-> Len(h) + i,
         metadata |-> items[i].metadata]]

\* variant: every item is appended to the partition as soon as it is
\* normalized, so a raise leaves the items before the bad one behind
RECURSIVE AddLoopEager(_, _, _, _, _)
AddLoopEager(d, h, repo_id, items, i) ==
    IF i > Len(items) THEN [status |-> "ok", data |-> d, heap |-> h]
    ELSE IF h[items[i].vector].num = <<>>
         THEN [status |-> "ValueError", data |-> d, heap |-> h]
         ELSE LET n == Normalize(h, items[i].vector)
              IN AddLoopEager(
                     Extend(d, repo_id, <<[id |-> items[i].id, vector |-> n.ref,
                                           metadata |-> items[i].metadata]>>),
                     n.heap, repo_id, items, i + 1)

AddOutcomeEager(d, h, repo_id, items) ==
    IF repo_id = "" THEN [status |-> "ValueError", data |-> d, heap |-> h]
    ELSE IF items = <<>> THEN [status |-> "ok", data |-> d, heap |-> h]
    ELSE AddLoopEager(d, WithCallerLists(h, items), repo_id,
                      ByReference(h, items), 1)

\* variant: the partition is looked up, and so created, before items is
\* tested
AddOutcomeCreateFirst(d, h, repo_id, items) ==
    IF repo_id = "" THEN [status |-> "ValueError", data |-> d, heap |-> h]
    ELSE IF items = <<>>
    THEN [status |-> "ok", data |-> Extend(d, repo_id, <<>>), heap |-> h]
    ELSE LET loop == AddLoop(WithCallerLists(h, items), ByReference(h, items),
                             1, <<>>)
         IN IF loop.status = "ValueError"
            THEN [status |-> "ValueError", data |-> d, heap |-> h]
            ELSE [status |-> "ok", data |-> Extend(d, repo_id, loop.items),
                  heap |-> loop.heap]

\* add_vectors on the store d with list objects h: the outcome and the
\* store it leaves; lists that nothing refers to after a raise are dropped
AddOutcome(d, h, repo_id, items) ==
    IF repo_id = "" THEN [status |-> "ValueError", data |-> d, heap |-> h]
    ELSE IF items = <<>> THEN [status |-> "ok", data |-> d, heap |-> h]
    ELSE LET loop == AddLoop(WithCallerLists(h, items), ByReference(h, items),
                             1, <<>>)
         IN IF loop.status = "ValueError"
            THEN [status |-> "ValueError", data |-> d, heap |-> h]
            ELSE [status |-> "ok", data |-> Extend(d, repo_id, loop.items),
                  heap |-> loop.heap]

(***************************************************************************)
(* vector_store.py: search                                                 *)
(***************************************************************************)
\* variant: an item of another length is skipped
RECURSIVE ScanSkip(_, _, _, _, _)
ScanSkip(h, repo_items, query, i, acc) ==
    IF i > Len(repo_items) THEN [status |-> "ok", results |-> acc]
    ELSE LET cos == CosineSimilarity(query, h[repo_items[i].vector])
         IN IF cos.status = "ValueError"
            THEN ScanSkip(h, repo_items, query, i + 1, acc)
            ELSE ScanSkip(h, repo_items, query, i + 1,
                     Append(acc, [id |-> repo_items[i].id, score |-> cos.score,
                                  metadata |-> repo_items[i].metadata]))

\* the for loop over repo_items; the first raise ends the call
RECURSIVE Scan(_, _, _, _, _)
Scan(h, repo_items, query, i, acc) ==
    IF i > Len(repo_items) THEN [status |-> "ok", results |-> acc]
    ELSE LET cos == CosineSimilarity(query, h[repo_items[i].vector])
         IN IF cos.status # "ok"
            THEN [status |-> cos.status, results |-> <<>>]
            ELSE Scan(h, repo_items, query, i + 1,
                     Append(acc, [id |-> repo_items[i].id, score |-> cos.score,
                                  metadata |-> repo_items[i].metadata]))

\* variant: x goes in front of the elements of equal score
InsertDescTiesFirst(sorted, x) ==
    LET before == {j \in 1..Len(sorted) : ScoreLess(x.score, sorted[j].score)}
        n == Cardinality(before)
    IN SubSeq(sorted, 1, n) \o <<x>> \o SubSeq(sorted, n + 1, Len(sorted))

\* place x behind every element whose score is not smaller than its own
InsertDesc(sorted, x) ==
    LET before == {j \in 1..Len(sorted) : ~ScoreLess(sorted[j].score, x.score)}
        n == Cardinality(before)
    IN SubSeq(sorted, 1, n) \o <<x>> \o SubSeq(sorted, n + 1, Len(sorted))

\* variant: sort without reverse=True
RECURSIVE SortAsc(_)
SortAsc(rs) ==
    IF rs = <<>> THEN <<>>
    ELSE LET rest == SortAsc(SubSeq(rs, 1, Len(rs) - 1))
             x == rs[Len(rs)]
             n == Cardinality({j \in 1..Len(rest) :
                                  ~ScoreLess(x.score, rest[j].score)})
         IN SubSeq(rest, 1, n) \o <<x>> \o SubSeq(rest, n + 1, Len(rest))

\* results.sort(key=score, reverse=True): descending and stable
RECURSIVE SortDesc(_)
SortDesc(rs) ==
    IF rs = <<>> THEN <<>>
    ELSE InsertDesc(SortDesc(SubSeq(rs, 1, Len(rs) - 1)), rs[Len(rs)])

\* variant: results[:k - 1]
TakeOneLess(rs, k) == SubSeq(rs, 1, Min(k - 1, Len(rs)))

\* results[:k] for k > 0
Take(rs, k) == SubSeq(rs, 1, Min(k, Len(rs)))

\* variant: the k <= 0 test is made after the scan instead of before it
SearchOutcomeLateK(d, h, repo_id, query_vector, k) ==
    IF Get(d, repo_id) = <<>> THEN [status |-> "ok", value |-> <<>>]
    ELSE LET hq == Append(h, Raw(query_vector))
             n == Normalize(hq, Len(hq))
             scan == Scan(n.heap, Get(d, repo_id), n.heap[n.ref], 1, <<>>)
         IN IF scan.status = "ValueError"
            THEN [status |-> "ValueError", value |-> <<>>]
            ELSE IF k <= 0 THEN [status |-> "ok", value |-> <<>>]
            ELSE [status |-> "ok", value |-> Take(SortDesc(scan.results), k)]

\* the value search returns, or "ValueError"
SearchOutcome(d, h, repo_id, query_vector, k) ==
    IF k <= 0 THEN [status |-> "ok", value |-> <<>>]
    ELSE IF Get(d, repo_id) = <<>> THEN [status |-> "ok", value |-> <<>>]
    ELSE LET hq == Append(h, Raw(query_vector))
             n == Normalize(hq, Len(hq))
             scan == Scan(n.heap, Get(d, repo_id), n.heap[n.ref], 1, <<>>)
         IN IF scan.status # "ok"
            THEN [status |-> scan.status, value |-> <<>>]
            ELSE [status |-> "ok", value |-> Take(SortDesc(scan.results), k)]

(***************************************************************************)
(* The store and its callers                                               *)
(***************************************************************************)
RepoIds == {"", "A", "B"}
\* the items callers insert: two ids, each inserted with several vectors; two
\* vectors of one direction, an orthogonal one, the zero vector, a vector of
\* another length and the empty vector
InputItems ==
    {[id |-> "c1", vector |-> <<1, 0>>, metadata |-> "m1"],
     [id |-> "c2", vector |-> <<2, 0>>, metadata |-> "m2"],
     [id |-> "c1", vector |-> <<0, 1>>, metadata |-> "m2"],
     [id |-> "c2", vector |-> <<0, 0>>, metadata |-> "m1"],
     [id |-> "c1", vector |-> <<1>>, metadata |-> "m1"],
     [id |-> "c2", vector |-> <<>>, metadata |-> "m1"]}
\* queries: every inserted vector, and vectors that give a tie, negative
\* scores and three different scores
QueryVectors ==
    {it.vector : it \in InputItems} \cup {<<1, 1>>, <<-1, 0>>, <<1, -1>>}
MutationValues == {0, 1}

Batches == UNION {[1..n -> InputItems] : n \in 0..MaxBatch}

NoCall == [op |-> "none"]

RECURSIVE TotalItems(_)
TotalItems(d) ==
    IF DOMAIN d = {} THEN 0
    ELSE LET r == CHOOSE x \in DOMAIN d : TRUE
         IN Len(d[r]) + TotalItems([y \in DOMAIN d \ {r} |-> d[y]])

EmptyData == [r \in {} |-> <<>>]

StoreInit ==
    /\ data = EmptyData
    /\ data2 = EmptyData
    /\ heap = <<>>
    /\ passed = {}
    /\ res = NoCall
    /\ mutations = 0

\* the whole of add_vectors(repo_id, items); the store is kept within
\* MaxItems items
AddVectors(repo_id, items) ==
    LET out == AddOutcome(data, heap, repo_id, items)
    IN /\ res = NoCall
       /\ TotalItems(out.data) <= MaxItems
       /\ res' = [op |-> "add_vectors", store |-> 1, repo_id |-> repo_id,
                  items |-> items, status |-> out.status]
       /\ data' = out.data
       /\ heap' = out.heap
       /\ passed' = IF out.status = "ok" /\ items # <<>>
                    THEN passed \cup {Len(heap) + i : i \in 1..Len(items)}
                    ELSE passed
       /\ UNCHANGED <<mutations, cvars, tvars, evars, ovars>>

\* the whole of search(repo_id, query_vector, k)
Search(repo_id, query_vector, k) ==
    LET out == SearchOutcome(data, heap, repo_id, query_vector, k)
    IN /\ res = NoCall
       /\ res' = [op |-> "search", store |-> 1, repo_id |-> repo_id,
                  query_vector |-> query_vector, k |-> k,
                  status |-> out.status, value |-> out.value]
       /\ UNCHANGED <<data, heap, passed, mutations, cvars, tvars, evars, ovars>>

\* the caller takes the outcome and goes on
Return ==
    /\ res # NoCall
    /\ res' = NoCall
    /\ UNCHANGED <<data, heap, passed, mutations, cvars, tvars, evars, ovars>>

\* a caller writes x into position j of a list it passed to add_vectors
Mutate(r, j, x) ==
    /\ res = NoCall
    /\ mutations < MaxMutations
    /\ r \in passed
    /\ j \in 1..Len(heap[r].num)
    /\ heap[r].num[j] # x
    /\ heap' = [heap EXCEPT ![r].num[j] = x]
    /\ mutations' = mutations + 1
    /\ UNCHANGED <<data, passed, res, cvars, tvars, evars, ovars>>

\* calls are made one after the other: the next one once the last returned
CallAdd ==
    /\ res = NoCall
    /\ \E repo_id \in RepoIds \ {""}, items \in Batches :
           AddVectors(repo_id, items)
\* the empty repo id is refused before items is looked at: short batches do
CallAddNoRepo ==
    /\ res = NoCall
    /\ \E items \in {b \in Batches : Len(b) <= 1} : AddVectors("", items)
\* no partition can be stored under the empty repo id
CallSearch ==
    /\ res = NoCall
    /\ \E repo_id \in RepoIds \ {""}, q \in QueryVectors, k \in (-1)..MaxK :
           Search(repo_id, q, k)
\* search takes the empty repo id like any other; nothing is stored under it
CallSearchNoRepo ==
    /\ res = NoCall
    /\ \E q \in {<<1, 0>>, <<>>}, k \in 0..1 : Search("", q, k)
\* a caller that inserts one item per call
CallAddOne ==
    /\ res = NoCall
    /\ \E repo_id \in RepoIds, item \in InputItems : AddVectors(repo_id, <<item>>)
CallerWrite ==
    /\ res = NoCall
    /\ \E r \in passed : \E j \in 1..Len(heap[r].num), x \in MutationValues :
           Mutate(r, j, x)

StoreNext == CallAdd \/ CallAddNoRepo \/ CallSearch \/ CallSearchNoRepo \/ Return

CallerNext == CallAddOne \/ CallSearch \/ Return \/ CallerWrite

(***************************************************************************)
(* Two stores, each made by its own SimpleVectorStore().  data is the dict *)
(* object made by the first __init__, data2 the one made by the second.    *)
(***************************************************************************)
\* variant: data = {} in the class body, one dict for every store
OwnDictOfClass(store) == 1

\* __init__: self.data = {}, a dict object of this store alone
OwnDict(store) == store

\* self.data of a store
SelfData(store) == IF OwnDict(store) = 1 THEN data ELSE data2

\* the whole of add_vectors(repo_id, items) on the second store
AddVectors2(repo_id, items) ==
    LET out == AddOutcome(SelfData(2), heap, repo_id, items)
    IN /\ res = NoCall
       /\ TotalItems(out.data) <= MaxItems
       /\ res' = [op |-> "add_vectors", store |-> 2, repo_id |-> repo_id,
                  items |-> items, status |-> out.status]
       /\ IF OwnDict(2) = 1
          THEN data' = out.data /\ UNCHANGED data2
          ELSE data2' = out.data /\ UNCHANGED data
       /\ heap' = out.heap
       /\ UNCHANGED <<passed, mutations, cvars, tvars, evars>>

\* the whole of search(repo_id, query_vector, k) on the second store
Search2(repo_id, query_vector, k) ==
    LET out == SearchOutcome(SelfData(2), heap, repo_id, query_vector, k)
    IN /\ res = NoCall
       /\ res' = [op |-> "search", store |-> 2, repo_id |-> repo_id,
                  query_vector |-> query_vector, k |-> k,
                  status |-> out.status, value |-> out.value]
       /\ UNCHANGED <<data, heap, passed, mutations, cvars, tvars, evars, ovars>>

\* the two stores together hold at most MaxStoresItems items
StoresRoom == TotalItems(data) + TotalItems(data2) < MaxStoresItems

\* queries of both lengths stored, one of them scoring the items differently
StoresQueries == {<<1, 1>>, <<-1, 0>>, <<1>>}

StoresAdd1 ==
    /\ res = NoCall
    /\ StoresRoom
    /\ \E repo_id \in RepoIds \ {""}, item \in InputItems :
           AddVectors(repo_id, <<item>>)
StoresSearch1 ==
    /\ res = NoCall
    /\ \E repo_id \in RepoIds \ {""}, q \in StoresQueries, k \in {1, MaxK} :
           Search(repo_id, q, k)
\* the second store is given the repo id and the items the first one gets
StoresAdd2 ==
    /\ res = NoCall
    /\ StoresRoom
    /\ \E item \in InputItems : AddVectors2("A", <<item>>)
StoresSearch2 ==
    /\ res = NoCall
    /\ \E q \in StoresQueries : Search2("A", q, MaxK)

StoresNext ==
    StoresAdd1 \/ StoresSearch1 \/ StoresAdd2 \/ StoresSearch2 \/ Return

(***************************************************************************)
(* Threads calling one store.  The store takes no lock.  The interpreter   *)
(* runs one thread at a time and may switch threads between two bytecodes, *)
(* so a call of a built-in dict or list method (get, setdefault, extend,   *)
(* the next item of a list iteration) is one step, and the statements of a *)
(* method that touch only its local variables are merged into the step     *)
(* before them.  A partition is one list object for as long as the store   *)
(* lives, so the local variable repo_items is modelled by its repo id.     *)
(***************************************************************************)
\* two threads: one call overlaps another one, or several calls made one
\* after the other by the other thread
Threads == {1, 2}

\* the batches threads insert: batches of one and of several items, with a
\* vector of another length and with an empty vector
ThreadItem(id, vector) == [id |-> id, vector |-> vector, metadata |-> "m1"]
ThreadBatches ==
    {<<>>,
     <<ThreadItem("c1", <<1, 0>>)>>,
     <<ThreadItem("c2", <<0, 1>>), ThreadItem("c3", <<1, 1>>)>>,
     <<ThreadItem("c4", <<1>>)>>,
     <<ThreadItem("c5", <<1, 0>>), ThreadItem("c6", <<>>)>>}
ThreadQueries == {<<1, 2>>, <<1>>}
ThreadRepoIds == {"A", "B"}

Idle ==
    [pc |-> "idle", op |-> "none", repo_id |-> "", items |-> <<>>,
     rest |-> <<>>, fresh |-> FALSE, query_vector |-> <<>>, k |-> 0,
     query |-> Raw(<<>>), bound |-> FALSE, i |-> 0, results |-> <<>>,
     lo |-> 0, status |-> "none", value |-> <<>>]

ThreadInit ==
    /\ th = [t \in Threads |-> Idle]
    /\ log = [r \in ThreadRepoIds |-> <<>>]

\* no thread has been started
ThreadsOff == th = <<>> /\ log = <<>>

RECURSIVE Flatten(_)
Flatten(bs) == IF bs = <<>> THEN <<>> ELSE bs[1] \o Flatten(Tail(bs))

\* items that calls under way have still to append
InFlight == {t \in Threads : th[t].pc \in {"setdefault", "extend"}}
RECURSIVE PendingItems(_)
PendingItems(ts) ==
    IF ts = {} THEN 0
    ELSE LET t == CHOOSE x \in ts : TRUE
         IN Len(th[t].rest) + PendingItems(ts \ {t})

\* variant: self.data[repo_id] = [], whatever the store holds
SetDefaultFresh(d, repo_id) ==
    [r \in DOMAIN d \cup {repo_id} |-> IF r = repo_id THEN <<>> ELSE d[r]]

\* self.data.setdefault(repo_id, [])
SetDefault(d, repo_id) ==
    [r \in DOMAIN d \cup {repo_id} |-> Get(d, r)]

\* variant: the items are appended one by one, for item in ...: append(item)
ExtendCountOne(n) == 1

\* the number of items one step of list.extend appends, of the n to append
ExtendCount(n) == n

\* add_vectors from its entry to the end of the for loop
ThreadAddCall(t, repo_id, items) ==
    /\ th[t].pc = "idle"
    /\ (repo_id # "" /\ \A i \in 1..Len(items) : items[i].vector # <<>>) =>
           TotalItems(data) + PendingItems(InFlight) + Len(items) <= MaxThreadItems
    /\ LET call == [Idle EXCEPT !.op = "add_vectors", !.repo_id = repo_id]
           loop == AddLoop(WithCallerLists(heap, items),
                           ByReference(heap, items), 1, <<>>)
       IN IF repo_id = ""
          THEN /\ th' = [th EXCEPT ![t] =
                           [call EXCEPT !.pc = "done", !.status = "ValueError"]]
               /\ UNCHANGED heap
          ELSE IF items = <<>>
          THEN /\ th' = [th EXCEPT ![t] =
                           [call EXCEPT !.pc = "done", !.status = "ok"]]
               /\ UNCHANGED heap
          ELSE IF loop.status = "ValueError"
          THEN /\ th' = [th EXCEPT ![t] =
                           [call EXCEPT !.pc = "done", !.status = "ValueError"]]
               /\ UNCHANGED heap
          ELSE /\ th' = [th EXCEPT ![t] =
                           [call EXCEPT !.pc = "setdefault",
                                        !.items = loop.items,
                                        !.rest = loop.items]]
               /\ heap' = loop.heap
    /\ UNCHANGED <<data, passed, res, mutations, log, cvars, evars, ovars>>

\* repo_items = self.data.setdefault(repo_id, [])
ThreadSetDefault(t) ==
    /\ th[t].pc = "setdefault"
    /\ data' = SetDefault(data, th[t].repo_id)
    /\ th' = [th EXCEPT ![t].pc = "extend",
                        ![t].fresh = (data'[th[t].repo_id] = <<>>)]
    /\ UNCHANGED <<heap, passed, res, mutations, log, cvars, evars, ovars>>

\* repo_items.extend(normalized_items), and the return that follows it
ThreadExtend(t) ==
    /\ th[t].pc = "extend"
    /\ LET r == th[t].repo_id
           n == ExtendCount(Len(th[t].rest))
           now == SubSeq(th[t].rest, 1, n)
           later == SubSeq(th[t].rest, n + 1, Len(th[t].rest))
       IN /\ data' = [data EXCEPT ![r] = @ \o now]
          /\ IF later = <<>>
             THEN /\ th' = [th EXCEPT ![t].pc = "done", ![t].rest = <<>>,
                                      ![t].status = "ok"]
                  /\ log' = [log EXCEPT ![r] = Append(@, th[t].items)]
             ELSE /\ th' = [th EXCEPT ![t].rest = later]
                  /\ UNCHANGED log
    /\ UNCHANGED <<heap, passed, res, mutations, cvars, evars, ovars>>

\* search: the test of k
ThreadSearchCall(t, repo_id, query_vector, k) ==
    /\ th[t].pc = "idle"
    /\ LET call == [Idle EXCEPT !.op = "search", !.repo_id = repo_id,
                                !.query_vector = query_vector, !.k = k,
                                !.lo = Len(log[repo_id])]
       IN th' = [th EXCEPT ![t] =
                    IF k <= 0
                    THEN [call EXCEPT !.pc = "done", !.status = "ok"]
                    ELSE [call EXCEPT !.pc = "get"]]
    /\ UNCHANGED <<svars, log, cvars, evars, ovars>>

\* repo_items = self.data.get(repo_id)
ThreadGet(t) ==
    /\ th[t].pc = "get"
    /\ th' = [th EXCEPT ![t].pc = "test",
                        ![t].bound = (th[t].repo_id \in DOMAIN data)]
    /\ UNCHANGED <<svars, log, cvars, evars, ovars>>

\* if not repo_items: return []; otherwise the query is normalized and the
\* iteration over repo_items is set up
ThreadTest(t) ==
    /\ th[t].pc = "test"
    /\ LET hq == Append(heap, Raw(th[t].query_vector))
           n == Normalize(hq, Len(hq))
       IN th' = [th EXCEPT ![t] =
                    IF ~th[t].bound \/ data[th[t].repo_id] = <<>>
                    THEN [@ EXCEPT !.pc = "done", !.status = "ok"]
                    ELSE [@ EXCEPT !.pc = "scan", !.query = n.heap[n.ref],
                                   !.i = 0, !.results = <<>>]]
    /\ UNCHANGED <<svars, log, cvars, evars, ovars>>

\* the for statement asks the list for its next item: the list as it is now.
\* With an item, one loop body; without, the sort and the slice
ThreadScan(t) ==
    /\ th[t].pc = "scan"
    /\ LET repo_items == data[th[t].repo_id]
           it == repo_items[th[t].i + 1]
           cos == CosineSimilarity(th[t].query, heap[it.vector])
       IN th' = [th EXCEPT ![t] =
                    IF th[t].i >= Len(repo_items)
                    THEN [@ EXCEPT !.pc = "done", !.status = "ok",
                                   !.value = Take(SortDesc(th[t].results), th[t].k)]
                    ELSE IF cos.status # "ok"
                    THEN [@ EXCEPT !.pc = "done", !.status = cos.status]
                    ELSE [@ EXCEPT !.i = @ + 1,
                                   !.results = Append(@,
                                       [id |-> it.id, score |-> cos.score,
                                        metadata |-> it.metadata])]]
    /\ UNCHANGED <<svars, log, cvars, evars, ovars>>

\* the caller takes the outcome; the thread is free for its next call
ThreadReturn(t) ==
    /\ th[t].pc = "done"
    /\ th' = [th EXCEPT ![t] = Idle]
    /\ UNCHANGED <<svars, log, cvars, evars, ovars>>

ThreadsAdd ==
    \E t \in Threads, repo_id \in ThreadRepoIds, items \in ThreadBatches :
        ThreadAddCall(t, repo_id, items)
ThreadsAddNoRepo == \E t \in Threads : ThreadAddCall(t, "", <<>>)
ThreadsSetDefault == \E t \in Threads : ThreadSetDefault(t)
ThreadsExtend == \E t \in Threads : ThreadExtend(t)
\* add_vectors treats every repo id alike, and two searches do not act on
\* one another: one thread searching one repo id is enough
ThreadsSearch ==
    \E q \in ThreadQueries, k \in 0..MaxK : ThreadSearchCall(1, "A", q, k)
ThreadsGet == \E t \in Threads : ThreadGet(t)
ThreadsTest == \E t \in Threads : ThreadTest(t)
ThreadsScan == \E t \in Threads : ThreadScan(t)
ThreadsReturn == \E t \in Threads : ThreadReturn(t)

ThreadNext ==
    \/ ThreadsAdd \/ ThreadsAddNoRepo \/ ThreadsSetDefault \/ ThreadsExtend
    \/ ThreadsSearch \/ ThreadsGet \/ ThreadsTest \/ ThreadsScan
    \/ ThreadsReturn

(***************************************************************************)
(* embeddings.py                                                           *)
(*                                                                         *)
(* hashlib.sha256(...).hexdigest() is a function from strings to strings   *)
(* of DigestChars hex digits; which function is left open: sha is any      *)
(* function from the hashed strings to a few digests, fixed for a whole    *)
(* behaviour.  A hex string is the sequence of the values of its digits.   *)
(***************************************************************************)
DigestChars == 64

EmbedTexts == {"a", "b"}
\* dim: two refused values, two served by one digest, one that needs two
EmbedDims == {-1, 0, 1, 2, DigestChars \div 2 + 1}
EmbedBatches == UNION {[1..n -> EmbedTexts] : n \in 0..MaxTexts}

\* f"{text}:{counter}"
Suffixed(text, counter) == text \o ":" \o ToString(counter)

HashInputs == EmbedTexts \cup {Suffixed(t, c) : t \in EmbedTexts, c \in 1..2}

\* digests: all digits different from their neighbours, and all bytes zero
Digests ==
    {[i \in 1..DigestChars |-> (i * 7) % 16], [i \in 1..DigestChars |-> 0]}

\* the while loop of _hex_stream
RECURSIVE HexLoop(_, _, _, _, _)
HexLoop(h, text, total_chars, hex_data, counter) ==
    IF Len(hex_data) < total_chars
    THEN HexLoop(h, text, total_chars, hex_data \o h[Suffixed(text, counter)],
                 counter + 1)
    ELSE SubSeq(hex_data, 1, total_chars)

\* _hex_stream, with the counter starting at first
HexStreamFrom(h, text, total_chars, first) ==
    HexLoop(h, text, total_chars, h[text], first)

\* [int(hex_data[i:i + 2], 16) / 255.0 for i in range(0, len(hex_data), 2)]:
\* the numerators, over the common denominator 255
ChunkValues(hex_data) ==
    [j \in 1..(Len(hex_data) \div 2) |-> 16 * hex_data[2 * j - 1] + hex_data[2 * j]]

\* _normalize of embeddings.py: a new list in both branches; the common
\* denominator cancels in value / norm
EmbedNormalize(values) ==
    IF SumSq(values) = 0
    THEN Raw([i \in 1..Len(values) |-> 0])
    ELSE Unit(Raw(values))

\* variant: the counter of _hex_stream is not started again for each text
\* (the hashed strings of the model end at counter 2)
EmbedStepRunningCounter(h, vectors, text, dim) ==
    Append(vectors,
           EmbedNormalize(SubSeq(ChunkValues(
               HexStreamFrom(h, text, dim * 2, Min(Len(vectors) + 1, 2))), 1, dim)))

\* one body of the for loop of embed_texts
EmbedStep(h, vectors, text, dim) ==
    Append(vectors,
           EmbedNormalize(SubSeq(ChunkValues(
               HexStreamFrom(h, text, dim * 2, 1)), 1, dim)))

EmbedIdle ==
    [pc |-> "idle", texts |-> <<>>, dim |-> 1, i |-> 0, vectors |-> <<>>,
     before |-> {}]

\* what a returned call showed: the vector it gave for each text
Shown(e) ==
    IF e.pc = "done"
    THEN {[text |-> e.texts[j], dim |-> e.dim, vector |-> e.vectors[j]] :
              j \in 1..Len(e.vectors)}
    ELSE e.before

\* embed_texts(texts, dim) up to the for loop; the caller keeps the result
\* of the call before
EmbedCall(texts, dim) ==
    /\ emb.pc \in {"idle", "done", "ValueError"}
    /\ emb' = [pc |-> IF dim <= 0 THEN "ValueError" ELSE "loop",
               texts |-> texts, dim |-> dim, i |-> 0, vectors |-> <<>>,
               before |-> Shown(emb)]
    /\ UNCHANGED <<sha, cvars, svars, tvars, ovars>>

\* the for loop: the next text, or the return
EmbedLoop ==
    /\ emb.pc = "loop"
    /\ IF emb.i < Len(emb.texts)
       THEN emb' = [emb EXCEPT !.i = @ + 1,
                               !.vectors = EmbedStep(sha, @, emb.texts[emb.i + 1],
                                                     emb.dim)]
       ELSE emb' = [emb EXCEPT !.pc = "done"]
    /\ UNCHANGED <<sha, cvars, svars, tvars, ovars>>

EmbedCalls == \E texts \in EmbedBatches, dim \in EmbedDims : EmbedCall(texts, dim)

EmbedNext == EmbedCalls \/ EmbedLoop

\* embed_texts is not called and nothing is hashed
EmbedOff == sha = <<>> /\ emb = EmbedIdle

\* the call of the module's own example; every line is written "x"
SIMULATED_TOTAL_LINES == 450
EXAMPLE_MAX_LINES == 200
EXAMPLE_OVERLAP == 20
sample_text ==
    JoinLines([i \in 1..SIMULATED_TOTAL_LINES |-> <<"x">>])
DemoCall ==
    [text |-> sample_text, max_lines |-> EXAMPLE_MAX_LINES,
     overlap_lines |-> EXAMPLE_OVERLAP]

\* the calls on short texts
ShortCalls ==
    [text : Texts, max_lines : (-1)..MaxMaxLines,
     overlap_lines : (-1)..MaxOverlap]

\* a call out of calls is about to run
ChunkCallInit(calls) ==
    /\ cin \in calls
    /\ cpc = "call"
    /\ lines = <<>>
    /\ start_index = 0
    /\ chunks = <<>>
    /\ iters = 0
    /\ StoreInit
    /\ ThreadsOff
    /\ EmbedOff

ChunkInit == ChunkCallInit(ShortCalls \cup {DemoCall})

\* variant: the text is split and the empty text returned before the
\* arguments are checked
ChunkEnterEmptyFirst ==
    /\ cpc = "call"
    /\ IF SplitLines(cin.text) = <<>>
       THEN /\ cpc' = "done"
            /\ lines' = <<>>
            /\ start_index' = 0
            /\ chunks' = <<>>
       ELSE IF cin.max_lines <= 0 \/ cin.overlap_lines < 0
       THEN /\ cpc' = "ValueError"
            /\ UNCHANGED <<lines, start_index, chunks>>
       ELSE /\ lines' = SplitLines(cin.text)
            /\ cpc' = "loop"
            /\ start_index' = 0
            /\ chunks' = <<>>
    /\ UNCHANGED <<cin, iters, svars, tvars, evars, ovars>>

\* argument checks, splitlines, the empty-text return, loop set-up
ChunkEnter ==
    /\ cpc = "call"
    /\ IF cin.max_lines <= 0 \/ cin.overlap_lines < 0
       THEN /\ cpc' = "ValueError"
            /\ UNCHANGED <<lines, start_index, chunks>>
       ELSE /\ lines' = SplitLines(cin.text)
            /\ cpc' = IF lines' = <<>> THEN "done" ELSE "loop"
            /\ start_index' = 0
            /\ chunks' = <<>>
    /\ UNCHANGED <<cin, iters, svars, tvars, evars, ovars>>

\* one test of the while condition and, if it holds, one loop body
ChunkLoop ==
    /\ cpc = "loop"
    /\ LET total_lines == Len(lines)
           overlap == EffectiveOverlap(cin.max_lines, cin.overlap_lines)
           step == Step(cin.max_lines, overlap)
           end_index == Min(total_lines, start_index + cin.max_lines)
       IN IF start_index < total_lines
          THEN /\ chunks' = Append(chunks, MakeChunk(lines, start_index, cin.max_lines))
               /\ iters' = iters + 1
               /\ IF end_index >= total_lines
                  THEN /\ cpc' = "done"
                       /\ UNCHANGED start_index
                  ELSE /\ cpc' = "loop"
                       /\ start_index' = start_index + step
          ELSE /\ cpc' = "done"
               /\ UNCHANGED <<start_index, chunks, iters>>
    /\ UNCHANGED <<cin, lines, svars, tvars, evars, ovars>>

\* no chunk_file_text call is under way
ChunkIdle ==
    /\ cin = [text |-> <<>>, max_lines |-> 1, overlap_lines |-> 0]
    /\ cpc = "off"
    /\ lines = <<>>
    /\ start_index = 0
    /\ chunks = <<>>
    /\ iters = 0

Init == StoreInit /\ ChunkIdle /\ ThreadsOff /\ EmbedOff

ThreadsStart == StoreInit /\ ChunkIdle /\ ThreadInit /\ EmbedOff

EmbedInit ==
    /\ StoreInit
    /\ ChunkIdle
    /\ ThreadsOff
    /\ sha \in [HashInputs -> Digests]
    /\ emb = EmbedIdle

ChunkNext == ChunkEnter \/ ChunkLoop

SpecChunk == ChunkInit /\ [][ChunkNext]_vars

\* a call on a short text that has begun goes on to its next statement
SpecChunkFair ==
    ChunkCallInit(ShortCalls) /\ [][ChunkNext]_vars /\ WF_vars(ChunkNext)

\* the store under add_vectors and search
Spec == Init /\ [][StoreNext]_vars

\* the store with callers that also write to the lists they passed
SpecCaller == Init /\ [][CallerNext]_vars

\* two stores called in turn
SpecStores == Init /\ [][StoresNext]_vars

\* embed_texts called again and again
SpecEmbed == EmbedInit /\ [][EmbedNext]_vars

\* the store called by several threads at once
SpecThreads == ThreadsStart /\ [][ThreadNext]_vars

(***************************************************************************)
(* Properties of chunk_file_text                                           *)
(***************************************************************************)
StartOf(c) == c.metadata.start_line
EndOf(c) == c.metadata.end_line
RangeOf(c) == StartOf(c)..EndOf(c)
Returned == cpc = "done"

\* C1: for a text with at least one line and valid arguments, the returned
\* chunks cover every line: the first chunk starts at line 1, the last one
\* ends at total_lines, consecutive chunks leave no gap, and the union of
\* the ranges is exactly 1..total_lines.
C1_Coverage ==
    (Returned /\ Len(lines) >= 1) =>
        /\ chunks # <<>>
        /\ StartOf(chunks[1]) = 1
        /\ EndOf(chunks[Len(chunks)]) = Len(lines)
        /\ \A i \in 1..(Len(chunks) - 1) :
               StartOf(chunks[i + 1]) <= EndOf(chunks[i]) + 1
        /\ UNION {RangeOf(chunks[i]) : i \in 1..Len(chunks)} = 1..Len(lines)

\* several windows, with an overlap argument at least as large as the window
C1_Witness ==
    /\ Returned
    /\ Len(chunks) >= 3
    /\ cin.max_lines > 1
    /\ cin.overlap_lines >= cin.max_lines

\* C2: the returned chunks are in strictly increasing start_line order, no
\* two of them have the same id or the same (start_line, end_line) pair, and
\* every chunk has 1 <= start_line <= end_line.
C2_OrderedUnique ==
    Returned =>
        /\ \A i, j \in 1..Len(chunks) :
               i < j => /\ StartOf(chunks[i]) < StartOf(chunks[j])
                        /\ chunks[i].id # chunks[j].id
                        /\ <<StartOf(chunks[i]), EndOf(chunks[i])>>
                             # <<StartOf(chunks[j]), EndOf(chunks[j])>>
        /\ \A i \in 1..Len(chunks) :
               /\ 1 <= StartOf(chunks[i])
               /\ StartOf(chunks[i]) <= EndOf(chunks[i])

\* a call that returned overlapping windows
C2_Witness ==
    /\ Returned
    /\ Len(chunks) >= 2
    /\ StartOf(chunks[2]) <= EndOf(chunks[1])

\* C14: chunk_file_text raises the invalid-argument error and returns no
\* chunks whenever max_lines <= 0 or overlap_lines < 0, for every text, the
\* empty text included: the arguments are checked before the empty text is
\* looked at; for valid arguments the empty text gives the empty sequence.
C14_ArgumentsFirst ==
    (cpc \notin {"call", "off"}) =>
        IF cin.max_lines <= 0 \/ cin.overlap_lines < 0
        THEN cpc = "ValueError" /\ chunks = <<>>
        ELSE /\ cpc # "ValueError"
             /\ SplitLines(cin.text) = <<>> => (cpc = "done" /\ chunks = <<>>)

\* the empty text with a bad argument
C14_Witness ==
    /\ cpc = "ValueError"
    /\ cin.text = <<>>
    /\ cin.max_lines > 0
    /\ cin.overlap_lines < 0

\* C18: window arithmetic.  With step = max(1, max_lines - effective
\* overlap), the i-th chunk (from 0) has start_line = i*step + 1 and
\* end_line = min(total_lines, i*step + max_lines); every chunk but the
\* last has exactly max_lines lines, the last chunk and no other ends at
\* total_lines, no chunk is empty, and there is 1 chunk when total_lines <=
\* max_lines and ceil((total_lines - max_lines)/step) + 1 otherwise; 450
\* lines with max_lines 200 and overlap_lines 20 give exactly (1,200),
\* (181,380), (361,450).
C18_Windows ==
    (Returned /\ Len(lines) >= 1) =>
        LET total == Len(lines)
            m == cin.max_lines
            effective == IF m > 1 THEN Min(cin.overlap_lines, m - 1) ELSE 0
            step == Max(1, m - effective)
            n == Len(chunks)
        IN /\ \A i \in 1..n :
                  /\ StartOf(chunks[i]) = (i - 1) * step + 1
                  /\ EndOf(chunks[i]) = Min(total, (i - 1) * step + m)
                  /\ EndOf(chunks[i]) >= StartOf(chunks[i])
           /\ \A i \in 1..(n - 1) :
                  EndOf(chunks[i]) - StartOf(chunks[i]) + 1 = m
           /\ {i \in 1..n : EndOf(chunks[i]) = total} = {n}
           /\ n = IF total <= m THEN 1
                  ELSE (total - m + step - 1) \div step + 1
           /\ cin = DemoCall =>
                  [i \in 1..n |-> <<StartOf(chunks[i]), EndOf(chunks[i])>>]
                      = <<<<1, 200>>, <<181, 380>>, <<361, 450>>>>

\* the example call has returned
C18_Witness ==
    /\ Returned
    /\ cin = DemoCall
    /\ Len(lines) = SIMULATED_TOTAL_LINES
    /\ Len(chunks) = 3
    /\ chunks[2].id = "chunk-181-380"

\* C16: chunk_file_text terminates for every valid input: with the
\* effective overlap min(overlap_lines, max_lines - 1) for max_lines > 1
\* and 0 otherwise, every iteration moves the window start forward by the
\* step max(1, max_lines - effective overlap), which is at least 1, the loop
\* runs at most total_lines times, and the call comes to its end, also when
\* overlap_lines >= max_lines.
C16_Terminates ==
    /\ [](cpc \in {"loop", "done"} => iters <= Len(lines))
    /\ [][(cpc = "loop" /\ cpc' = "loop") =>
            LET effective == IF cin.max_lines > 1
                             THEN Min(cin.overlap_lines, cin.max_lines - 1)
                             ELSE 0
            IN /\ start_index' - start_index = Max(1, cin.max_lines - effective)
               /\ start_index' > start_index]_vars
    /\ <>(cpc \in {"done", "ValueError"})

\* an overlap larger than the window: the windows move on by one line
C16_Witness ==
    /\ cpc = "done"
    /\ cin.max_lines >= 2
    /\ cin.overlap_lines > cin.max_lines
    /\ iters >= 2
    /\ iters = Len(lines) - cin.max_lines + 1

(***************************************************************************)
(* Properties of embed_texts                                               *)
(***************************************************************************)
\* C15: embed_texts is deterministic and order-preserving: for dim > 0 it
\* returns one vector of length dim per input text, in input order, and
\* the vector of a text depends only on the text and on dim: two
\* occurrences of a text, in one call or in two calls, at whatever
\* positions and among whatever other texts, have identical vectors.
C15_Deterministic ==
    (emb.pc = "done") =>
        /\ emb.dim > 0
        /\ Len(emb.vectors) = Len(emb.texts)
        /\ \A j \in 1..Len(emb.vectors) : Len(emb.vectors[j].num) = emb.dim
        /\ \A j, l \in 1..Len(emb.vectors) :
               emb.texts[j] = emb.texts[l] => emb.vectors[j] = emb.vectors[l]
        /\ \A j \in 1..Len(emb.vectors), b \in emb.before :
               (b.text = emb.texts[j] /\ b.dim = emb.dim) =>
                   b.vector = emb.vectors[j]

\* a text that came first in the call before comes second now, behind a
\* text with another vector, with a dim that takes two digests
C15_Witness ==
    /\ emb.pc = "done"
    /\ emb.dim > DigestChars \div 2
    /\ Len(emb.texts) = 2
    /\ emb.vectors[1] # emb.vectors[2]
    /\ \E b \in emb.before :
           /\ b.text = emb.texts[2]
           /\ b.dim = emb.dim
           /\ b.vector # emb.vectors[1]

(***************************************************************************)
(* Properties of SimpleVectorStore                                         *)
(***************************************************************************)
SearchReturned == res.op = "search"
AddReturned == res.op = "add_vectors"

\* the partition a returned call was about, and the vector of its i-th item
Partition == Get(data, res.repo_id)
StoredVec(it) == heap[it.vector]

\* cosine of the angle between the integer vector x and the stored vector y,
\* 0 when one of them is the zero vector
RefCos(x, y) ==
    IF SumSq(x) = 0 \/ SumSq(y.num) = 0 THEN ZeroScore
    ELSE MkScore(Dot(x, y.num), SumSq(x) * SumSq(y.num))

ScoreAt(i) == RefCos(res.query_vector, StoredVec(Partition[i]))

MatchingDim ==
    \A i \in 1..Len(Partition) :
        Len(StoredVec(Partition[i]).num) = Len(res.query_vector)

\* the ways to read a result list of m entries as m different items of P
Picks(m, n) ==
    {f \in [1..m -> 1..n] : \A a, b \in 1..m : a # b => f[a] # f[b]}

IsPick(f) ==
    \A j \in 1..Len(res.value) :
        res.value[j] = [id |-> Partition[f[j]].id, score |-> ScoreAt(f[j]),
                        metadata |-> Partition[f[j]].metadata]

\* C3: for a partition of n items, k > 0 and a query of the dimension of
\* every stored vector, search returns exactly min(k, n) results, their
\* scores are non-increasing, and they are the top k: no item left out
\* scores higher than a returned one.
C3_TopK ==
    (SearchReturned /\ res.k > 0 /\ MatchingDim) =>
        /\ res.status = "ok"
        /\ Len(res.value) = Min(res.k, Len(Partition))
        /\ \A j \in 1..(Len(res.value) - 1) :
               ~ScoreLess(res.value[j].score, res.value[j + 1].score)
        /\ \E f \in Picks(Len(res.value), Len(Partition)) :
               /\ IsPick(f)
               /\ \A i \in 1..Len(Partition) :
                      (\A j \in 1..Len(res.value) : f[j] # i) =>
                          \A j \in 1..Len(res.value) :
                              ~ScoreLess(res.value[j].score, ScoreAt(i))

\* k cuts the partition, and the best item was not inserted first
C3_Witness ==
    /\ SearchReturned
    /\ res.status = "ok"
    /\ res.k = 1
    /\ Len(Partition) = 2
    /\ ScoreLess(ScoreAt(1), ScoreAt(2))
    /\ Len(res.value) = 1

\* C4: items with equal scores are returned in insertion order, and when the
\* cut after k falls inside a group of equal scores the earliest inserted of
\* the group are the ones returned.
C4_TiesInInsertionOrder ==
    (SearchReturned /\ res.status = "ok") =>
        \E f \in Picks(Len(res.value), Len(Partition)) :
            /\ IsPick(f)
            /\ \A a, b \in 1..Len(res.value) :
                   (a < b /\ res.value[a].score = res.value[b].score) => f[a] < f[b]
            /\ \A i \in 1..Len(Partition), j \in 1..Len(res.value) :
                   ((\A a \in 1..Len(res.value) : f[a] # i)
                        /\ ScoreAt(i) = res.value[j].score) => f[j] < i

\* two items of different ids tie and only one of them is returned
C4_Witness ==
    /\ SearchReturned
    /\ res.status = "ok"
    /\ Len(Partition) = 2
    /\ Partition[1].id # Partition[2].id
    /\ ScoreAt(1) = ScoreAt(2)
    /\ res.value = <<[id |-> Partition[1].id, score |-> ScoreAt(1),
                      metadata |-> Partition[1].metadata]>>

Mismatch ==
    \E i \in 1..Len(Partition) :
        Len(StoredVec(Partition[i]).num) # Len(res.query_vector)

\* C5 as stated: whenever the query's length differs from the length of a
\* vector stored in the searched partition, search raises the dimension
\* error and returns nothing.
C5_Original ==
    (SearchReturned /\ Mismatch) =>
        (res.status = "ValueError" /\ res.value = <<>>)

\* C5 (amended): for k > 0, whenever the query's length differs from the
\* length of a vector stored anywhere in the searched partition, search
\* raises the dimension error and returns nothing: no item is skipped.
C5_FailFast ==
    (SearchReturned /\ res.k > 0 /\ Mismatch) =>
        (res.status = "ValueError" /\ res.value = <<>>)

\* a partition of mixed lengths whose first item fits the query
C5_Witness ==
    /\ SearchReturned
    /\ res.k > 0
    /\ Len(Partition) = 2
    /\ Len(StoredVec(Partition[1]).num) = Len(res.query_vector)
    /\ Len(StoredVec(Partition[2]).num) # Len(res.query_vector)
    /\ res.status = "ValueError"

\* what the store holds: every partition with the vectors written out
ItemAt(d, h, r, i) ==
    [id |-> d[r][i].id, vector |-> h[d[r][i].vector], metadata |-> d[r][i].metadata]

StoreView(d, h) ==
    [r \in DOMAIN d |-> [i \in 1..Len(d[r]) |-> ItemAt(d, h, r, i)]]

\* C6: a caller's later in-place write to a vector list it passed to
\* add_vectors changes no stored item (and so no later search result), for
\* every vector value, the all-zero vector included.
C6_CallerWriteHarmless ==
    [][mutations' # mutations => StoreView(data', heap') = StoreView(data, heap)]_vars

\* the vector the store keeps for the inserted integer vector v: v for the
\* zero vector, the unit vector of v's direction otherwise
IsStoredFormOf(s, v) ==
    /\ Len(s.num) = Len(v)
    /\ IF SumSq(v) = 0
       THEN s = Raw(v)
       ELSE /\ SumSq(s.num) = s.den
            /\ Dot(s.num, v) > 0
            /\ Dot(s.num, v) * Dot(s.num, v) = SumSq(s.num) * SumSq(v)

\* the searched partition ends with an item inserted with the query vector
LastIsQuery ==
    /\ Partition # <<>>
    /\ IsStoredFormOf(StoredVec(Partition[Len(Partition)]), res.query_vector)

SelfMatch ==
    /\ res.status = "ok"
    /\ Len(res.value) = 1
    /\ res.value[1].id = Partition[Len(Partition)].id
    /\ res.value[1].score = OneScore

\* C7 as stated: after add_vectors(repo, [(id, v, meta)]) with a non-empty
\* v, search(repo, v, 1) returns exactly one result, with id id and score
\* 1.0, provided no other item of the partition is identical to v.
C7_Original ==
    (SearchReturned /\ res.k = 1 /\ res.query_vector # <<>> /\ LastIsQuery
        /\ \A i \in 1..(Len(Partition) - 1) :
               StoredVec(Partition[i]) # Raw(res.query_vector))
    => SelfMatch

\* C7 (amended): the same, provided v is not the zero vector, every item
\* of the partition has v's length, and no other item of the partition has
\* v's direction (is stored as the same unit vector).
C7_SelfMatch ==
    (SearchReturned /\ res.k = 1 /\ SumSq(res.query_vector) # 0 /\ LastIsQuery
        /\ MatchingDim
        /\ \A i \in 1..(Len(Partition) - 1) :
               ~IsStoredFormOf(StoredVec(Partition[i]), res.query_vector))
    => SelfMatch

\* the self-match wins over an item inserted before it
C7_Witness ==
    /\ SearchReturned
    /\ res.k = 1
    /\ SumSq(res.query_vector) # 0
    /\ Len(Partition) = 2
    /\ LastIsQuery
    /\ Partition[1].id # Partition[2].id
    /\ ~IsStoredFormOf(StoredVec(Partition[1]), res.query_vector)
    /\ SumSq(StoredVec(Partition[1]).num) # 0
    /\ SelfMatch

AddStep == res.op = "none" /\ res'.op = "add_vectors"
SearchStep == res.op = "none" /\ res'.op = "search"

\* C8: a successful add_vectors with non-empty items makes the partition
\* its previous sequence followed by one entry per element of items, in
\* input order, creating the partition if needed; nothing is merged, the
\* length grows by exactly len(items).
C8_Appends ==
    [][(AddStep /\ res'.status = "ok" /\ res'.items # <<>>) =>
        LET r == res'.repo_id
            old == Get(data, r)
            n == Len(res'.items)
        IN /\ DOMAIN data' = DOMAIN data \cup {r}
           /\ Len(data'[r]) = Len(old) + n
           /\ \A i \in 1..Len(old) :
                  ItemAt(data', heap', r, i) = ItemAt(data, heap, r, i)
           /\ \A i \in 1..n :
                  /\ data'[r][Len(old) + i].id = res'.items[i].id
                  /\ data'[r][Len(old) + i].metadata = res'.items[i].metadata
                  /\ IsStoredFormOf(heap'[data'[r][Len(old) + i].vector],
                                    res'.items[i].vector)]_vars

\* an id that was already in the partition was inserted once more
C8_Witness ==
    /\ AddReturned
    /\ res.status = "ok"
    /\ Len(res.items) = 1
    /\ Len(Partition) = 2
    /\ Partition[1].id = Partition[2].id

\* C9: when repo_id is empty or any element of items carries an empty
\* vector, add_vectors raises and leaves the store exactly as it was: no
\* item of the batch appended, no partition created.
C9_AllOrNothing ==
    [][(AddStep /\ (res'.repo_id = ""
                    \/ \E i \in 1..Len(res'.items) : res'.items[i].vector = <<>>)) =>
        /\ res'.status = "ValueError"
        /\ data' = data
        /\ StoreView(data', heap') = StoreView(data, heap)]_vars

\* a batch whose second element is the bad one, on a store that holds items
C9_Witness ==
    /\ AddReturned
    /\ res.status = "ValueError"
    /\ res.repo_id # ""
    /\ Len(res.items) = 2
    /\ res.items[1].vector # <<>>
    /\ res.items[2].vector = <<>>
    /\ Partition # <<>>

\* C10: an item at position i of a partition stays there, unchanged, in
\* every later state; add_vectors on one repo id leaves the other partitions
\* unchanged; search never changes the store and never creates a partition.
C10_AppendOnly ==
    [][/\ \A r \in DOMAIN data :
              /\ r \in DOMAIN data'
              /\ Len(data'[r]) >= Len(data[r])
              /\ \A i \in 1..Len(data[r]) :
                     ItemAt(data', heap', r, i) = ItemAt(data, heap, r, i)
       /\ AddStep => \A r \in DOMAIN data' \ {res'.repo_id} :
                         r \in DOMAIN data /\ data'[r] = data[r]
       /\ SearchStep => (data' = data /\ heap' = heap)]_vars

\* an add_vectors on one partition while another one exists
C10_Witness ==
    /\ AddReturned
    /\ res.status = "ok"
    /\ res.items # <<>>
    /\ DOMAIN data = {"A", "B"}

\* C11: search returns the empty sequence and raises nothing whenever
\* k <= 0, for every repo id and every query vector whatever its length,
\* and whenever repo_id has no partition in the store.
C11_ShortCircuits ==
    (SearchReturned /\ (res.k <= 0 \/ res.repo_id \notin DOMAIN data)) =>
        (res.status = "ok" /\ res.value = <<>>)

\* k <= 0 on a partition whose vectors do not have the query's length
C11_Witness ==
    /\ SearchReturned
    /\ res.k <= 0
    /\ Partition # <<>>
    /\ Mismatch
    /\ res.status = "ok"
    /\ res.value = <<>>

\* C17 as stated: add_vectors called with an empty items sequence returns
\* successfully and changes nothing: the store is as before and no
\* partition is created for repo_id.
C17_Original ==
    [][(AddStep /\ res'.items = <<>>) =>
        /\ res'.status = "ok"
        /\ data' = data
        /\ heap' = heap]_vars

\* C17 (amended): add_vectors called with a non-empty repo_id and an empty
\* items sequence returns successfully and changes nothing: the store is as
\* before and no partition is created for repo_id.
C17_EmptyItemsNoOp ==
    [][(AddStep /\ res'.items = <<>> /\ res'.repo_id # "") =>
        /\ res'.status = "ok"
        /\ data' = data
        /\ heap' = heap]_vars

\* an empty batch for a repo id that has no partition, in a store that
\* holds another one
C17_Witness ==
    /\ AddReturned
    /\ res.items = <<>>
    /\ res.status = "ok"
    /\ res.repo_id \notin DOMAIN data
    /\ DOMAIN data # {}

\* the first min(k, n) items of the partition, each with score 0.0
FirstItemsAtZero ==
    [j \in 1..Min(Max(res.k, 0), Len(Partition)) |->
        [id |-> Partition[j].id, score |-> ZeroScore,
         metadata |-> Partition[j].metadata]]

\* the query is an all-zero vector, of one component at least
ZeroQuery == res.query_vector # <<>> /\ SumSq(res.query_vector) = 0

StoredZero(i) == SumSq(StoredVec(Partition[i]).num) = 0

\* a stored all-zero vector has score 0.0, behind every returned positive
\* score and in front of every returned negative one; when it is cut off,
\* no negative score is returned
ZeroItemsRanked ==
    \E f \in Picks(Len(res.value), Len(Partition)) :
        /\ IsPick(f)
        /\ \A j \in 1..Len(res.value) :
               StoredZero(f[j]) =>
                   /\ res.value[j].score = ZeroScore
                   /\ \A a \in 1..Len(res.value) :
                          /\ res.value[a].score.sgn > 0 => a < j
                          /\ res.value[a].score.sgn < 0 => a > j
        /\ \A i \in 1..Len(Partition) :
               (StoredZero(i) /\ \A j \in 1..Len(res.value) : f[j] # i) =>
                   \A a \in 1..Len(res.value) : res.value[a].score.sgn >= 0

\* C19 as stated: when the query vector is all-zero, every result has
\* score 0.0 and the results are the first min(k, n) items of the partition
\* in insertion order; when a stored vector is all-zero, its score is 0.0
\* for every query of the same length, so it ranks after every item with a
\* positive score and before every item with a negative score.
C19_Original ==
    SearchReturned =>
        /\ ZeroQuery => (res.status = "ok" /\ res.value = FirstItemsAtZero)
        /\ res.status = "ok" /\ res.k > 0 => ZeroItemsRanked

\* C19 (amended): the same for a query that has the length of every vector
\* of the partition: an all-zero query gives the first min(k, n) items in
\* insertion order, each with score 0.0; a stored all-zero vector has score
\* 0.0 and ranks after the positive and before the negative scores.
C19_ZeroNorm ==
    (SearchReturned /\ MatchingDim) =>
        /\ res.status = "ok"
        /\ ZeroQuery => res.value = FirstItemsAtZero
        /\ res.k > 0 => ZeroItemsRanked

\* the all-zero vector, inserted last, is returned in front of an item of
\* negative score
C19_Witness ==
    /\ SearchReturned
    /\ res.status = "ok"
    /\ Len(Partition) = 2
    /\ StoredZero(2)
    /\ Len(res.value) = 2
    /\ res.value[1].id = Partition[2].id
    /\ res.value[1].score = ZeroScore
    /\ res.value[2].score.sgn < 0

(***************************************************************************)
(* Properties of two stores                                                *)
(***************************************************************************)
\* the partition of repo id r in the store number s, and all of that store
DictOf(s) == IF s = 1 THEN data ELSE data2
PartitionOf(s, r) == IF r \in DOMAIN DictOf(s) THEN DictOf(s)[r] ELSE <<>>
\* the same after a step
DictOfNext(s) == IF s = 1 THEN data' ELSE data2'

\* every result is an item of the partition p, with its score
ResultsFrom(p) ==
    \E f \in Picks(Len(res.value), Len(p)) :
        \A j \in 1..Len(res.value) :
            res.value[j] = [id |-> p[f[j]].id,
                            score |-> RefCos(res.query_vector, heap[p[f[j]].vector]),
                            metadata |-> p[f[j]].metadata]

MismatchIn(p) ==
    \E i \in 1..Len(p) : Len(heap[p[i].vector].num) # Len(res.query_vector)

\* C20: tenant isolation.  Every result of search(repo_id, q, k) is an item
\* of the partition of repo_id in the store searched, and search raises the
\* dimension error only for a vector of that partition: the other
\* partitions and the other store count for nothing.  A partition holds
\* what add_vectors calls with its repo id on its store put there: an
\* add_vectors call appends its items to the partition of its repo id in
\* its store and leaves every other partition and the other store as they
\* were, two stores made separately starting empty and sharing no items.
C20_Isolation ==
    /\ [](SearchReturned /\ res.k > 0 =>
            LET p == PartitionOf(res.store, res.repo_id)
            IN IF MismatchIn(p)
               THEN res.status = "ValueError" /\ res.value = <<>>
               ELSE res.status = "ok" /\ ResultsFrom(p))
    /\ [][AddStep =>
            LET s == res'.store
                r == res'.repo_id
                o == 3 - s
            IN /\ StoreView(DictOfNext(o), heap') = StoreView(DictOf(o), heap)
               /\ \A x \in DOMAIN DictOfNext(s) \ {r} :
                      /\ x \in DOMAIN DictOf(s)
                      /\ StoreView(DictOfNext(s), heap')[x]
                             = StoreView(DictOf(s), heap)[x]
               /\ (IF r \in DOMAIN DictOfNext(s) THEN Len(DictOfNext(s)[r]) ELSE 0) =
                      Len(PartitionOf(s, r))
                          + (IF res'.status = "ok" THEN Len(res'.items) ELSE 0)]_vars
    /\ [][SearchStep => (data' = data /\ data2' = data2)]_vars

\* a search of one partition returns its item while the other partition of
\* the store and the partition of the same name in the other store hold
\* vectors of another length
C20_Witness ==
    /\ SearchReturned
    /\ res.store = 1
    /\ res.k > 0
    /\ res.status = "ok"
    /\ Len(res.value) = 1
    /\ \E x \in DOMAIN data \ {res.repo_id} : MismatchIn(data[x])
    /\ MismatchIn(PartitionOf(2, res.repo_id))

(***************************************************************************)
(* Properties of SimpleVectorStore under concurrent calls                  *)
(***************************************************************************)
\* the partition of repo id r made of the first n completed batches
Committed(r, n) == Flatten(SubSeq(log[r], 1, n))

\* what search returns when it runs alone on the partition p
Alone(r, p, query_vector, k) ==
    SearchOutcome(IF p = <<>> THEN EmptyData ELSE [x \in {r} |-> p],
                  heap, r, query_vector, k)

\* C12: a search running concurrently with add_vectors calls returns what
\* a search alone returns on the partition as it was entirely before or
\* entirely after each add_vectors call: on the whole batches completed
\* before the search was called, followed by the whole batches of some of
\* the calls completed while it ran, never on a part of a batch.
C12_SearchSeesWholeBatches ==
    \A t \in Threads :
        (th[t].op = "search" /\ th[t].pc = "done") =>
            \E n \in th[t].lo..Len(log[th[t].repo_id]) :
                Alone(th[t].repo_id, Committed(th[t].repo_id, n),
                      th[t].query_vector, th[t].k)
                    = [status |-> th[t].status, value |-> th[t].value]

\* a search called on a partition of one item returns two results: a batch
\* was appended while the search was scanning
C12_Witness ==
    \E t \in Threads :
        /\ th[t].op = "search"
        /\ th[t].pc = "done"
        /\ th[t].status = "ok"
        /\ Len(Committed(th[t].repo_id, th[t].lo)) = 1
        /\ Len(th[t].value) = 2

\* the orders in which n batches can follow one another
Orders(n) == {f \in [1..n -> 1..n] : \A a, b \in 1..n : a # b => f[a] # f[b]}

\* C13: when several add_vectors calls run concurrently on one store, on
\* the same or on different repo ids, no item is lost or duplicated and
\* batches do not interleave: every partition is the batches of the calls
\* that completed on it, one whole batch after the other, each in its input
\* order, also when two calls create the same partition at the same time.
C13_WholeBatches ==
    \A r \in ThreadRepoIds :
        (\A t \in InFlight : th[t].repo_id # r) =>
            /\ (r \notin DOMAIN data) => log[r] = <<>>
            /\ \E f \in Orders(Len(log[r])) :
                   Get(data, r) = Flatten([j \in 1..Len(log[r]) |-> log[r][f[j]]])

\* two calls got the same empty partition from setdefault, and both are done
C13_Witness ==
    /\ th[1].op = "add_vectors" /\ th[1].pc = "done" /\ th[1].fresh
    /\ th[2].op = "add_vectors" /\ th[2].pc = "done" /\ th[2].fresh
    /\ th[1].repo_id = th[2].repo_id
    /\ Len(th[1].items) + Len(th[2].items) >= 3
    /\ Len(data[th[1].repo_id]) = Len(th[1].items) + Len(th[2].items)

====
